---- MODULE Spec2Model ----
(***************************************************************************)
(* A model of the two programs of the repository:                          *)
(*   examples/dlt_hex_viewer.py        read_dlt_packet and main's loop     *)
(*   examples/dlt_websocket_bridge.py  read_from_dlt, broadcast_messages,  *)
(*                                     websocket_handler                   *)
(* ViewerSpec is the hex viewer reading one connection; Spec is the        *)
(* bridge with its upstream task, its broadcast task and its consumers.    *)
(***************************************************************************)
EXTENDS Integers, Sequences, FiniteSets, TLC

(***************************************************************************)
(* Bounds of the model                                                     *)
(***************************************************************************)
\* the largest length field the daemon puts in a header (viewer)
MaxLen == 8
\* the number of headers the daemon sends on the viewer's connection
MaxFrames == 2
\* the events from outside the bridge handles in a run: the reads of the
\* upstream connection that return data, the consumers that connect, the
\* upstream connections that fail or end, and the stop signal
MaxEvents == 4

(***************************************************************************)
(* Program constants                                                       *)
(***************************************************************************)
\* sock.recv(4): the size of the standard header
HEADER_SIZE == 4
\* msg_len < 4
MIN_MSG_LEN == 4
\* msg_len > 65535
MAX_MSG_LEN == 65535
\* reader.read(4096)
READ_SIZE == 4096

Min(a, b) == IF a < b THEN a ELSE b

(***************************************************************************)
(* The wire format: a 4-byte standard header whose bytes 2-3 (counted from *)
(* 0) hold the total length, big-endian, then length - 4 payload bytes.    *)
(* A header whose length field is below 4 has no payload.                  *)
(***************************************************************************)
\* Payload byte i (from 1).  Bytes 3 and 4 of a payload read 00 04, so a
\* reader that starts on a payload sees a plausible header.
PayloadByte(i) == IF i = 3 THEN 0 ELSE IF i = 4 THEN 4 ELSE 100 + i

\* The frame number j whose length field is L: header, then payload.
Frame(L, j) ==
    <<53, j % 256, (L \div 256) % 256, L % 256>>
        \o [i \in 1..(IF L > HEADER_SIZE THEN L - HEADER_SIZE ELSE 0) |-> PayloadByte(i)]

\* struct.unpack('>H', b)[0] of the two bytes hi, lo
Unpack(hi, lo) == hi * 256 + lo

\* the length check without its lower bound of 4
ValidLen_Low2(msg_len) == ~(msg_len < 2 \/ msg_len > MAX_MSG_LEN)

\* not (msg_len < 4 or msg_len > 65535)
ValidLen(msg_len) == ~(msg_len < MIN_MSG_LEN \/ msg_len > MAX_MSG_LEN)

\* remaining -= 1 instead of remaining -= len(chunk)
AfterChunk_ByOne(remaining, n) == remaining - 1

\* remaining -= len(chunk)
AfterChunk(remaining, n) == remaining - n

VARIABLES
    \* ---- hex viewer ----
    daemon_lens,    \* the length fields of the headers the daemon sends, in order
    daemon_closes,  \* whether the daemon closes the connection after them
    sock_pos,       \* the bytes of the stream recv has returned so far
    v_pc,           \* "header", "body": blocked in that recv; "done": loop left
    message,        \* read_dlt_packet's message
    remaining,      \* read_dlt_packet's remaining
    call_start,     \* sock_pos when the running read_dlt_packet was called
    call_reads,     \* the recv calls of the running read_dlt_packet that returned
    packets,        \* the packets main printed: [start, bytes]
    packet_count,   \* main's packet_count
    last            \* how the last call of read_dlt_packet ended

viewerVars == <<daemon_lens, daemon_closes, sock_pos, v_pc, message, remaining,
                call_start, call_reads, packets, packet_count, last>>

VARIABLES
    \* ---- websocket bridge ----
    up_pos,             \* the offset in the daemon's output of the next byte to read
    dlt_pc,             \* where read_from_dlt is suspended, or "done", "crashed"
    dlt_after,          \* what follows the finally block: "loop" or "exit"
    writer,             \* "unbound": not in locals(); else "open" or "closed"
    writer_err,         \* the connection of writer was lost with an exception
    backoff_due,        \* a connection failed or ended and no sleep(5) followed yet
    nread,              \* the chunks read so far
    faults,             \* the upstream connections that failed or ended so far
    refused,            \* the connect attempts refused in a row before the last
                        \* attempt that was accepted, or since the last
                        \* connection ended
    message_queue,      \* the asyncio.Queue: data, with the number seq of the read that
                        \* returned it, the offset off it read from and its size n
    websocket_clients,  \* the set of registered consumers
    ws_state,           \* per consumer: "new", "open", "closed", "done"
    bc_pc,              \* where broadcast_messages is suspended, or "done"
    bc_data,            \* broadcast_messages' data during the for loop (no item after it)
    bc_ws,              \* the consumer of the send in progress
    pass,               \* the last for loop: its item, its list(websocket_clients), its sends
    tried,              \* per consumer, the seq of every item a send to it began with
    sent,               \* per consumer, the items whose send to it returned
    failed,             \* the consumers a send to which raised
    dropped,            \* the seq of every item dequeued with no consumer
    dequeued,           \* the seq of every item dequeued, in order
    stop,               \* the external stop signal was given
    dlt_cancel,         \* read_from_dlt has a CancelledError to receive
    bc_cancel           \* broadcast_messages has a CancelledError to receive

dltVars == <<up_pos, dlt_pc, dlt_after, writer, writer_err, backoff_due, nread, faults,
             refused>>
bcVars == <<bc_pc, bc_data, bc_ws, pass, tried, sent, failed, dropped, dequeued>>
wsVars == <<websocket_clients, ws_state>>
cancelVars == <<stop, dlt_cancel, bc_cancel>>
bridgeVars == <<dltVars, message_queue, bcVars, wsVars, cancelVars>>

vars == <<viewerVars, bridgeVars>>

(***************************************************************************)
(* The daemon's byte stream                                                *)
(***************************************************************************)
RECURSIVE StreamOf(_, _)
\* the frames of lens, from frame number j on, one after the other
StreamOf(lens, j) ==
    IF j > Len(lens) THEN <<>> ELSE Frame(lens[j], j) \o StreamOf(lens, j + 1)

sock_stream == StreamOf(daemon_lens, 1)

RECURSIVE FrameStart(_)
\* the offset in the stream of frame number j
FrameStart(j) == IF j <= 1 THEN 0 ELSE FrameStart(j - 1) + Len(Frame(daemon_lens[j - 1], j - 1))

\* the bytes the daemon has sent and recv has not returned
Avail == Len(sock_stream) - sock_pos

NoCall == [outcome |-> "init", start |-> 0, hdr |-> 0, reads |-> 0, endpos |-> 0,
           packet |-> <<>>]

(***************************************************************************)
(* The daemon's output on a connection of the bridge: a frame of 4 bytes   *)
(* and a frame of 5 bytes in turn, without end.  The output repeats after  *)
(* 9 bytes, so an offset in it is kept modulo 9.                           *)
(***************************************************************************)
Clients == 1..MaxEvents

\* the two frames of one period, one after the other
UpPeriod == Frame(4, 1) \o Frame(5, 2)

\* the offsets in a period at which a frame starts
UpBoundaries == {0, Len(Frame(4, 1))}

\* the byte at offset p of the daemon's output
UpByte(p) == UpPeriod[(p % Len(UpPeriod)) + 1]

\* the k bytes from offset p on
UpBytes(p, k) == [i \in 1..k |-> UpByte(p + i - 1)]

\* the number of bytes from offset p to the first frame boundary after it
ToBoundary(p) ==
    CHOOSE n \in 1..Len(UpPeriod) :
        /\ ((p + n) % Len(UpPeriod)) \in UpBoundaries
        /\ \A m \in 1..(n - 1) : ((p + m) % Len(UpPeriod)) \notin UpBoundaries

\* the events from outside so far
Events ==
    nread + faults + Cardinality({c \in Clients : ws_state[c] # "new"})
        + (IF stop THEN 1 ELSE 0)

\* whether the daemon has bytes for the next read
UpAvail == Events < MaxEvents

\* the sizes a read returns: one byte, the bytes up to the next frame
\* boundary, or one byte more than that
ReadSizes ==
    {k \in {1, ToBoundary(up_pos), ToBoundary(up_pos) + 1} : k <= READ_SIZE}

NoItem == [seq |-> 0, off |-> 0, n |-> 0, data |-> <<>>]
NoPass == [seq |-> 0, snap |-> {}, visited |-> {}]

(***************************************************************************)
(* examples/dlt_websocket_bridge.py: state after main created the tasks    *)
(***************************************************************************)
BridgeInit ==
    /\ up_pos = 0
    /\ dlt_pc = "connect"
    /\ dlt_after = "loop"
    /\ writer = "unbound"
    /\ writer_err = FALSE
    /\ backoff_due = FALSE
    /\ nread = 0
    /\ faults = 0
    /\ refused = 0
    /\ message_queue = <<>>
    /\ websocket_clients = {}
    /\ ws_state = [c \in Clients |-> "new"]
    /\ bc_pc = "get"
    /\ bc_data = NoItem
    /\ bc_ws = 0
    /\ pass = NoPass
    /\ tried = [c \in Clients |-> <<>>]
    /\ sent = [c \in Clients |-> <<>>]
    /\ failed = {}
    /\ dropped = {}
    /\ dequeued = <<>>
    /\ stop = FALSE
    /\ dlt_cancel = FALSE
    /\ bc_cancel = FALSE

\* the viewer is not running
ViewerIdle ==
    /\ daemon_lens = <<>>
    /\ daemon_closes = FALSE
    /\ sock_pos = 0
    /\ v_pc = "done"
    /\ message = <<>>
    /\ remaining = 0
    /\ call_start = 0
    /\ call_reads = 0
    /\ packets = <<>>
    /\ packet_count = 0
    /\ last = NoCall

\* the bridge is not running
BridgeIdle == BridgeInit

Init == BridgeInit /\ ViewerIdle

(***************************************************************************)
(* read_from_dlt                                                           *)
(***************************************************************************)
\* asyncio.Queue(maxsize=1): put suspends while an item is queued
QueueAccepts_Bounded(q) == Len(q) < 1

\* asyncio.Queue(): put never suspends
QueueAccepts(q) == TRUE

\* message_queue.put(data[:1])
PutData_Cut(data) == SubSeq(data, 1, 1)

\* message_queue.put(data)
PutData(data) == data

\* a finally block that only awaits wait_closed(), without writer.close()
Finally_NoClose(next) ==
    /\ writer' = writer
    /\ dlt_pc' = IF writer # "unbound" THEN "closing"
                 ELSE IF next = "loop" THEN "connect" ELSE "done"
    /\ dlt_after' = next

\* a finally block placed around the while loop: the task ends after it
Finally_Exit(next) ==
    /\ writer' = IF writer # "unbound" THEN "closed" ELSE writer
    /\ dlt_pc' = "done"
    /\ dlt_after' = "exit"

\* the finally block: writer.close() and the start of wait_closed(), when
\* 'writer' is in locals(); after it the loop goes on (next = "loop") or
\* the task ends (next = "exit")
Finally(next) ==
    IF writer # "unbound"
    THEN /\ writer' = "closed"
         /\ dlt_pc' = "closing"
         /\ dlt_after' = next
    ELSE /\ writer' = writer
         /\ dlt_pc' = IF next = "loop" THEN "connect" ELSE "done"
         /\ dlt_after' = next

\* asyncio.open_connection returns
ConnectOk ==
    /\ dlt_pc = "connect" /\ ~dlt_cancel
    /\ writer' = "open"
    /\ writer_err' = FALSE
    /\ up_pos' = 0
    /\ dlt_pc' = "read"
    /\ backoff_due' = FALSE
    /\ UNCHANGED <<refused, dlt_after, nread, faults, message_queue, bcVars, wsVars, cancelVars,
                   viewerVars>>

\* asyncio.open_connection raises ConnectionRefusedError or another
\* exception: the handler starts asyncio.sleep(5)
ConnectFails ==
    /\ dlt_pc = "connect" /\ ~dlt_cancel
    /\ Events < MaxEvents
    /\ faults' = faults + 1
    /\ refused' = refused + 1
    /\ dlt_pc' = "sleep"
    /\ backoff_due' = TRUE
    /\ UNCHANGED <<up_pos, dlt_after, writer, writer_err, nread, message_queue,
                   bcVars, wsVars, cancelVars, viewerVars>>

\* reader.read(4096) returns k bytes, which are put in the queue
ReadData ==
    /\ dlt_pc = "read" /\ ~dlt_cancel
    /\ QueueAccepts(message_queue)
    /\ UpAvail
    /\ \E k \in ReadSizes :
        LET data == UpBytes(up_pos, k)
        IN  /\ data # <<>>
            /\ message_queue' = Append(message_queue,
                    [seq |-> nread + 1, off |-> up_pos, n |-> k, data |-> PutData(data)])
            /\ nread' = nread + 1
            /\ up_pos' = (up_pos + k) % Len(UpPeriod)
    /\ UNCHANGED <<refused, dlt_pc, dlt_after, writer, writer_err, backoff_due, faults,
                   bcVars, wsVars, cancelVars, viewerVars>>

\* reader.read(4096) returns b'': break, then the finally block
ReadEof ==
    /\ dlt_pc = "read" /\ ~dlt_cancel
    /\ Events < MaxEvents
    /\ faults' = faults + 1
    /\ refused' = 0
    /\ backoff_due' = TRUE
    /\ Finally("loop")
    /\ UNCHANGED <<up_pos, writer_err, nread, message_queue,
                   bcVars, wsVars, cancelVars, viewerVars>>

\* reader.read(4096) raises (a reset connection, another I/O error): the
\* handler of Exception starts asyncio.sleep(5)
ReadError ==
    /\ dlt_pc = "read" /\ ~dlt_cancel
    /\ Events < MaxEvents
    /\ faults' = faults + 1
    /\ refused' = 0
    /\ writer_err' = TRUE
    /\ dlt_pc' = "sleep"
    /\ backoff_due' = TRUE
    /\ UNCHANGED <<up_pos, dlt_after, writer, nread, message_queue,
                   bcVars, wsVars, cancelVars, viewerVars>>

\* asyncio.sleep(5) returns: the handler ends, then the finally block
SleepDone ==
    /\ dlt_pc = "sleep" /\ ~dlt_cancel
    /\ backoff_due' = FALSE
    /\ Finally("loop")
    /\ UNCHANGED <<refused, up_pos, writer_err, nread, faults, message_queue,
                   bcVars, wsVars, cancelVars, viewerVars>>

\* writer.wait_closed() returns: the loop goes on or the task ends
WaitClosedDone ==
    /\ dlt_pc = "closing" /\ ~dlt_cancel
    /\ dlt_pc' = IF dlt_after = "loop" THEN "connect" ELSE "done"
    /\ UNCHANGED <<refused, up_pos, dlt_after, writer, writer_err, backoff_due, nread, faults,
                   message_queue, bcVars, wsVars, cancelVars, viewerVars>>

\* writer.wait_closed() raises the exception the connection was lost with:
\* nothing in read_from_dlt catches it, gather raises it in main, main
\* leaves the server's block and the event loop cancels broadcast_messages
WaitClosedRaises ==
    /\ dlt_pc = "closing"
    /\ writer_err
    /\ dlt_pc' = "crashed"
    /\ dlt_cancel' = FALSE
    /\ bc_cancel' = FALSE
    /\ bc_pc' = IF bc_pc = "crashed" THEN bc_pc ELSE "done"
    /\ UNCHANGED <<refused, up_pos, dlt_after, writer, writer_err, backoff_due, nread, faults,
                   message_queue, bc_data, bc_ws, pass, tried, sent, failed, dropped,
                   dequeued, wsVars, stop, viewerVars>>

\* CancelledError is raised in read_from_dlt where it is suspended
DltCancelled ==
    /\ dlt_cancel
    /\ dlt_pc \in {"connect", "read", "sleep", "closing"}
    /\ dlt_cancel' = FALSE
    /\ IF dlt_pc = "closing"
       THEN /\ dlt_pc' = "done"
            /\ UNCHANGED <<writer, dlt_after>>
       ELSE Finally("exit")
    /\ UNCHANGED <<refused, up_pos, writer_err, backoff_due, nread, faults, message_queue,
                   bcVars, wsVars, stop, bc_cancel, viewerVars>>

(***************************************************************************)
(* broadcast_messages                                                      *)
(***************************************************************************)
\* for ws in websocket_clients: the loop follows the live set
PassTargets_Live(snap, live) == live

\* for ws in list(websocket_clients): the loop follows the copy
PassTargets(snap, live) == snap

\* iterating the live set raises RuntimeError once its size changed
IterationRaises_Live(snap, live) == Cardinality(live) # Cardinality(snap)

\* iterating the copy list(websocket_clients) never raises
IterationRaises(snap, live) == FALSE

\* the else branch puts the item back
AfterDrop_Requeue(q, item) == Append(q, item)

\* the else branch only prints
AfterDrop(q, item) == q

\* message_queue.get() returns the newest item
QueueGet_Last(q) == [item |-> q[Len(q)], rest |-> SubSeq(q, 1, Len(q) - 1)]

\* message_queue.get() returns the oldest item
QueueGet(q) == [item |-> Head(q), rest |-> Tail(q)]

\* the for loop goes on after the consumers in visited, the registry being
\* live: it starts the next send, or the pass ends and get() is awaited
NextSend(data, snap, visited, live) ==
    IF IterationRaises(snap, live)
    THEN /\ bc_pc' = "crashed"
         /\ bc_data' = NoItem
         /\ bc_ws' = 0
         /\ pass' = [seq |-> data.seq, snap |-> snap, visited |-> visited]
         /\ UNCHANGED tried
    ELSE IF PassTargets(snap, live) \ visited = {}
    THEN /\ bc_pc' = "get"
         /\ bc_data' = NoItem
         /\ bc_ws' = 0
         /\ pass' = [seq |-> data.seq, snap |-> snap, visited |-> visited]
         /\ UNCHANGED tried
    ELSE \E ws \in PassTargets(snap, live) \ visited :
         /\ bc_pc' = "send"
         /\ bc_data' = data
         /\ bc_ws' = ws
         /\ tried' = [tried EXCEPT ![ws] = Append(@, data.seq)]
         /\ pass' = [seq |-> data.seq, snap |-> snap, visited |-> visited \cup {ws}]

\* message_queue.get() returns an item: the pass over list(websocket_clients)
\* starts with its first send, or the item is dropped
BcGet ==
    /\ bc_pc = "get" /\ ~bc_cancel
    /\ message_queue # <<>>
    /\ LET got == QueueGet(message_queue)
       IN  /\ dequeued' = Append(dequeued, got.item.seq)
           /\ IF websocket_clients # {}
              THEN /\ message_queue' = got.rest
                   /\ NextSend(got.item, websocket_clients, {}, websocket_clients)
                   /\ UNCHANGED dropped
              ELSE /\ message_queue' = AfterDrop(got.rest, got.item)
                   /\ dropped' = dropped \cup {got.item.seq}
                   /\ UNCHANGED <<bc_pc, bc_data, bc_ws, pass, tried>>
    /\ UNCHANGED <<sent, failed, dltVars, wsVars, cancelVars, viewerVars>>

\* a discard that leaves the set as it is
Discard_Keep(clients, ws) == clients

\* websocket_clients.discard(ws)
Discard(clients, ws) == clients \ {ws}

\* the consumer is discarded after every send, failed or not
AfterSend_Always(clients, ws, ok) == clients \ {ws}

\* the registry after a send to ws: the handler of Exception discards ws
\* when the send raised (ok is FALSE), nothing is done when it returned
AfterSend(clients, ws, ok) == IF ok THEN clients ELSE Discard(clients, ws)

\* ws.send(data) returns, or raises because the consumer's connection is
\* closed: the consumer is discarded; then the for loop goes on
BcSendReturns ==
    /\ bc_pc = "send" /\ ~bc_cancel
    /\ LET ok == ws_state[bc_ws] = "open"
           live == AfterSend(websocket_clients, bc_ws, ok)
       IN  /\ sent' = IF ok THEN [sent EXCEPT ![bc_ws] = Append(@, bc_data.seq)] ELSE sent
           /\ failed' = IF ok THEN failed ELSE failed \cup {bc_ws}
           /\ websocket_clients' = live
           /\ NextSend(bc_data, pass.snap, pass.visited, live)
    /\ UNCHANGED <<dropped, dequeued, ws_state, message_queue, dltVars,
                   cancelVars, viewerVars>>

\* CancelledError is raised in broadcast_messages where it is suspended
BcCancelled ==
    /\ bc_cancel
    /\ bc_pc \in {"get", "send"}
    /\ bc_cancel' = FALSE
    /\ bc_pc' = "done"
    /\ UNCHANGED <<bc_data, bc_ws, pass, tried, sent, failed, dropped, dequeued,
                   message_queue, dltVars, wsVars, stop, dlt_cancel, viewerVars>>

(***************************************************************************)
(* websocket_handler, and the consumers                                    *)
(***************************************************************************)
\* main is inside "async with websockets.serve(...)": gather has neither
\* raised nor returned, which it does once both tasks have ended
Serving ==
    /\ dlt_pc # "crashed" /\ bc_pc # "crashed"
    /\ ~(dlt_pc = "done" /\ bc_pc = "done")

\* a consumer connects: websocket_handler adds it and awaits wait_closed()
WsAccept ==
    \E c \in Clients :
        /\ Serving
        /\ ws_state[c] = "new"
        /\ \A d \in Clients : d < c => ws_state[d] # "new"
        /\ Events < MaxEvents
        /\ ws_state' = [ws_state EXCEPT ![c] = "open"]
        /\ websocket_clients' = websocket_clients \cup {c}
        /\ UNCHANGED <<dltVars, message_queue, bcVars, cancelVars, viewerVars>>

\* the connection of a consumer closes
WsClose ==
    \E c \in Clients :
        /\ Serving
        /\ ws_state[c] = "open"
        /\ ws_state' = [ws_state EXCEPT ![c] = "closed"]
        /\ UNCHANGED <<websocket_clients, dltVars, message_queue, bcVars, cancelVars,
                       viewerVars>>

\* wait_closed() returns in websocket_handler: the finally block discards
WsHandlerExit ==
    \E c \in Clients :
        /\ Serving
        /\ ws_state[c] = "closed"
        /\ ws_state' = [ws_state EXCEPT ![c] = "done"]
        /\ websocket_clients' = Discard(websocket_clients, c)
        /\ UNCHANGED <<dltVars, message_queue, bcVars, cancelVars, viewerVars>>

(***************************************************************************)
(* main: the stop signal cancels both tasks                                *)
(***************************************************************************)
\* a backoff wait that cancel() does not interrupt (time.sleep)
Cancellable_NotAsleep(pc) == pc \notin {"done", "crashed", "sleep"}

\* task.cancel() has a CancelledError raised in a task that has not ended,
\* wherever it is suspended
Cancellable(pc) == pc \notin {"done", "crashed"}

Stop ==
    /\ ~stop
    /\ Events < MaxEvents
    /\ stop' = TRUE
    /\ dlt_cancel' = Cancellable(dlt_pc)
    /\ bc_cancel' = Cancellable(bc_pc)
    /\ UNCHANGED <<dltVars, message_queue, bcVars, wsVars, viewerVars>>

\* the bridge as long as nobody stops it
Next ==
    \/ ConnectOk \/ ConnectFails \/ ReadData \/ ReadEof \/ ReadError
    \/ SleepDone \/ WaitClosedDone \/ WaitClosedRaises
    \/ BcGet \/ BcSendReturns
    \/ WsAccept \/ WsClose \/ WsHandlerExit

Spec == Init /\ [][Next]_vars

\* the bridge with the stop signal
StopNext == Next \/ Stop \/ DltCancelled \/ BcCancelled

StopSpec == Init /\ [][StopNext]_vars

\* the event loop resumes read_from_dlt when its await can return: a sleep
\* ends, the wait_closed() of a closed writer returns; and the daemon,
\* refusing finitely often, accepts in the end
RetryFairness ==
    /\ WF_vars(SleepDone)
    /\ WF_vars(WaitClosedDone)
    /\ WF_vars(ConnectOk)

\* the event loop resumes broadcast_messages when its await can return: a
\* queue that holds an item hands it over, a send returns or raises
BroadcastFairness ==
    /\ WF_vars(BcGet)
    /\ WF_vars(BcSendReturns)

\* the bridge, nobody stopping it, read_from_dlt being run
LiveSpec == Spec /\ RetryFairness

\* the bridge, nobody stopping it, broadcast_messages being run
BroadcastLiveSpec == Spec /\ BroadcastFairness

\* the bridge with the stop signal, a cancelled task being run
StopLiveSpec ==
    /\ StopSpec
    /\ WF_vars(DltCancelled)
    /\ WF_vars(BcCancelled)
    /\ WF_vars(WaitClosedDone)

(***************************************************************************)
(* examples/dlt_hex_viewer.py                                              *)
(***************************************************************************)
ViewerInit ==
    /\ BridgeIdle
    /\ daemon_lens \in UNION {[1..n -> 0..MaxLen] : n \in 0..MaxFrames}
    /\ daemon_closes \in BOOLEAN
    /\ sock_pos = 0
    /\ v_pc = "header"
    /\ message = <<>>
    /\ remaining = 0
    /\ call_start = 0
    /\ call_reads = 0
    /\ packets = <<>>
    /\ packet_count = 0
    /\ last = NoCall

\* read_dlt_packet returns None after hdr header bytes: main prints
\* "Connection closed by daemon", breaks and closes the socket.
ReturnNone(pos, hdr) ==
    /\ v_pc' = "done"
    /\ sock_pos' = pos
    /\ message' = <<>>
    /\ remaining' = 0
    /\ call_start' = pos
    /\ call_reads' = 0
    /\ last' = [outcome |-> "none", start |-> call_start, hdr |-> hdr,
                reads |-> call_reads + 1, endpos |-> pos, packet |-> <<>>]
    /\ UNCHANGED <<packets, packet_count>>

\* read_dlt_packet returns bytes(msg): main counts and prints it and calls
\* read_dlt_packet again, which blocks in recv(4).
ReturnPacket(pos, msg) ==
    /\ v_pc' = "header"
    /\ sock_pos' = pos
    /\ message' = <<>>
    /\ remaining' = 0
    /\ call_start' = pos
    /\ call_reads' = 0
    /\ packet_count' = packet_count + 1
    /\ packets' = Append(packets, [start |-> call_start, bytes |-> msg])
    /\ last' = [outcome |-> "packet", start |-> call_start, hdr |-> HEADER_SIZE,
                reads |-> call_reads + 1, endpos |-> pos, packet |-> msg]

\* std_header = sock.recv(4) returns k bytes, 1 <= k <= 4
RecvHeader ==
    /\ v_pc = "header"
    /\ \E k \in 1..Min(HEADER_SIZE, Avail) :
        LET std_header == SubSeq(sock_stream, sock_pos + 1, sock_pos + k)
            pos == sock_pos + k
        IN  IF Len(std_header) < HEADER_SIZE
            THEN ReturnNone(pos, k)
            ELSE LET msg_len == Unpack(std_header[3], std_header[4])
                 IN  IF ~ValidLen(msg_len)
                     THEN ReturnNone(pos, k)
                     ELSE IF msg_len - HEADER_SIZE > 0
                          THEN /\ v_pc' = "body"
                               /\ sock_pos' = pos
                               /\ message' = std_header
                               /\ remaining' = msg_len - HEADER_SIZE
                               /\ call_reads' = call_reads + 1
                               /\ UNCHANGED <<call_start, packets, packet_count, last>>
                          ELSE ReturnPacket(pos, std_header)
    /\ UNCHANGED <<daemon_lens, daemon_closes, bridgeVars>>

\* chunk = sock.recv(remaining) returns k bytes, 1 <= k <= remaining
RecvBody ==
    /\ v_pc = "body"
    /\ \E k \in 1..Min(remaining, Avail) :
        LET chunk == SubSeq(sock_stream, sock_pos + 1, sock_pos + k)
            pos == sock_pos + k
            msg == message \o chunk
            rem == AfterChunk(remaining, Len(chunk))
        IN  IF rem > 0
            THEN /\ sock_pos' = pos
                 /\ message' = msg
                 /\ remaining' = rem
                 /\ call_reads' = call_reads + 1
                 /\ UNCHANGED <<v_pc, call_start, packets, packet_count, last>>
            ELSE ReturnPacket(pos, msg)
    /\ UNCHANGED <<daemon_lens, daemon_closes, bridgeVars>>

\* recv returns b'': the daemon closed and every byte was read
RecvEof ==
    /\ v_pc \in {"header", "body"}
    /\ daemon_closes
    /\ Avail = 0
    /\ ReturnNone(sock_pos, IF v_pc = "header" THEN 0 ELSE HEADER_SIZE)
    /\ UNCHANGED <<daemon_lens, daemon_closes, bridgeVars>>

\* recv raises socket.timeout (settimeout(5.0)): main's except continues
\* the loop, which calls read_dlt_packet again
RecvTimeout ==
    /\ v_pc \in {"header", "body"}
    /\ v_pc' = "header"
    /\ message' = <<>>
    /\ remaining' = 0
    /\ call_start' = sock_pos
    /\ call_reads' = 0
    /\ last' = [outcome |-> "timeout", start |-> call_start,
                hdr |-> IF v_pc = "header" THEN 0 ELSE HEADER_SIZE,
                reads |-> call_reads, endpos |-> sock_pos, packet |-> <<>>]
    /\ UNCHANGED <<sock_pos, packets, packet_count, daemon_lens, daemon_closes, bridgeVars>>

ViewerNext == RecvHeader \/ RecvBody \/ RecvEof \/ RecvTimeout

ViewerSpec == ViewerInit /\ [][ViewerNext]_vars

(***************************************************************************)
(* Claims about the bridge (Spec)                                          *)
(***************************************************************************)
\* the items in the queue and the item being sent
ItemsInFlight ==
    {message_queue[i] : i \in 1..Len(message_queue)}
        \cup (IF bc_pc = "send" THEN {bc_data} ELSE {})

\* b is one complete frame: at least 4 bytes, as many as its bytes 2-3 say
IsFrame(b) == Len(b) >= 4 /\ Len(b) = b[3] * 256 + b[4]

\* C2, as claimed: every item pushed into the queue, and so every item a
\* consumer is sent, is one complete valid frame.
C2_EveryItemIsOneFrame == \A it \in ItemsInFlight : IsFrame(it.data)

\* C2, amended: every item pushed into the queue, and so every item a
\* consumer is sent, is the non-empty byte string one read returned,
\* unchanged: the run of upstream bytes from where the read started, of the
\* size the read returned, whatever the frame boundaries are.
C2_EveryItemIsOneReadChunk ==
    \A it \in ItemsInFlight :
        /\ Len(it.data) >= 1
        /\ Len(it.data) <= READ_SIZE
        /\ it.data = UpBytes(it.off, it.n)

\* a consumer is being sent a chunk of 5 bytes, the first frame and one byte
\* of the second, and a chunk that starts inside the second frame is queued
C2_Witness ==
    /\ bc_pc = "send"
    /\ bc_data.off = 0 /\ Len(bc_data.data) = 5
    /\ message_queue # <<>>
    /\ message_queue[1].off = 5

\* each element of sq is the one before it plus one
Contiguous(sq) == \A i \in 1..(Len(sq) - 1) : sq[i + 1] = sq[i] + 1

\* C3: items leave the queue in the order they were read, and the items
\* sent to a consumer are in that order with none left out between the
\* first and the last of them.
C3_DeliveryInReadOrder ==
    /\ Contiguous(dequeued)
    /\ (dequeued # <<>> => dequeued[1] = 1)
    /\ \A c \in Clients : Contiguous(sent[c]) /\ Contiguous(tried[c])
    /\ \A c \in Clients : \A i \in 1..Len(sent[c]) :
        \E k \in 1..Len(dequeued) : dequeued[k] = sent[c][i]

\* a consumer was sent the items 1, 2, 3 in this order
C3_Witness == \E c \in Clients : sent[c] = <<1, 2, 3>>

\* C4: when a pass is over, a send was attempted to every consumer that was
\* in the registry when the pass started; a consumer whose send failed is
\* not in the registry; and a consumer of the pass whose send did not fail
\* and whose handler has not ended is still in the registry for the next
\* items.
C4_FailureDoesNotAbortPass ==
    /\ failed \cap websocket_clients = {}
    /\ pass.visited \subseteq pass.snap
    /\ \A c \in pass.visited : tried[c] # <<>> /\ tried[c][Len(tried[c])] = pass.seq
    /\ bc_pc = "get" => pass.visited = pass.snap
    /\ \A c \in pass.snap :
        (c \notin failed /\ ws_state[c] \in {"open", "closed"}) => c \in websocket_clients

\* the send of an item to one consumer failed, and then the same item was
\* sent to another consumer of the same pass
C4_Witness ==
    \E a, b \in Clients :
        /\ a # b
        /\ {a, b} \subseteq pass.snap
        /\ a \in failed
        /\ tried[a] = <<pass.seq>>
        /\ bc_pc = "get"
        /\ sent[b] = <<pass.seq>>
        /\ b \in websocket_clients

\* C5, as claimed: whenever a connect attempt starts after a connection
\* failed or ended, the backoff wait was made in between.
C5_BackoffBeforeReconnect == dlt_pc = "connect" => ~backoff_due

\* C6, as claimed: read_from_dlt never ends by an error that leaves the
\* task: without a stop signal it is always connecting, reading, waiting
\* or closing.
C6_IngestLoopNeverDies == dlt_pc \in {"connect", "read", "sleep", "closing"}

\* C7: an item dequeued while the registry was empty is in the queue no
\* more, is not being sent, and no send of it to any consumer ever began.
C7_DroppedIsNeverSent ==
    \A s \in dropped :
        /\ \A it \in ItemsInFlight : it.seq # s
        /\ \A c \in Clients : \A i \in 1..Len(tried[c]) : tried[c][i] # s
        /\ \E k \in 1..Len(dequeued) : dequeued[k] = s

\* item 1 was dropped, and a consumer that registered later was sent item 2
C7_Witness == dropped = {1} /\ \E c \in Clients : sent[c] = <<2>>

\* C9: while broadcast_messages is suspended in a send, read_from_dlt,
\* waiting in read with bytes to come, can take them and put them in the
\* queue, which grows by one item.
C9_StalledSendDoesNotStallReads ==
    (bc_pc = "send" /\ dlt_pc = "read" /\ ~dlt_cancel /\ UpAvail)
        => ENABLED (ReadData /\ Len(message_queue') = Len(message_queue) + 1)

\* a send is in progress, an item read during it is queued already, and the
\* next read can return
C9_Witness ==
    /\ bc_pc = "send"
    /\ dlt_pc = "read" /\ UpAvail
    /\ Len(message_queue) >= 1
    /\ message_queue[1].seq = bc_data.seq + 1

\* C10: no item is sent to a consumer twice, its pass never fails, the pass
\* sends to consumers of its list only, and when it is over none of them
\* was skipped, whoever joined or left the registry meanwhile.
C10_AtMostOncePerConsumer ==
    /\ bc_pc # "crashed"
    /\ \A c \in Clients : \A i, k \in 1..Len(tried[c]) : i < k => tried[c][i] < tried[c][k]
    /\ bc_pc = "send" => (bc_ws \in pass.visited /\ bc_ws \in pass.snap)
    /\ bc_pc = "get" => pass.snap \subseteq pass.visited

\* during the last send of a pass over consumers 1 and 2, consumer 2, sent
\* the item already, has left the registry and consumer 3 has joined it
C10_Witness ==
    /\ bc_pc = "send"
    /\ pass.snap = {1, 2} /\ pass.visited = {1, 2} /\ bc_ws = 1
    /\ websocket_clients = {1, 3}
    /\ sent[2] = <<bc_data.seq>>
    /\ tried[3] = <<>>

(***************************************************************************)
(* Claims about the hex viewer (ViewerSpec)                                *)
(***************************************************************************)
\* the call that ended last began where the daemon began frame number j
LastCallAtFrame(j) ==
    /\ last.outcome \in {"packet", "none"}
    /\ j \in 1..Len(daemon_lens)
    /\ last.start = FrameStart(j)
    /\ last.hdr = HEADER_SIZE

\* C1: a call of read_dlt_packet that begins at a frame whose length field L
\* is in [4, 65535], gets its 4 header bytes and then its body in reads of
\* any sizes (none of them timing out), returns that frame, header included,
\* byte for byte, and has consumed exactly L bytes of the stream, leaving the
\* next call at the next frame boundary.
C1_FrameReadBack ==
    \A j \in 1..Len(daemon_lens) :
        (LastCallAtFrame(j) /\ daemon_lens[j] >= 4 /\ daemon_lens[j] <= 65535)
            => /\ last.outcome = "packet"
               /\ last.packet = Frame(daemon_lens[j], j)
               /\ Len(last.packet) = daemon_lens[j]
               /\ last.endpos = FrameStart(j) + daemon_lens[j]
               /\ (j < Len(daemon_lens) => last.endpos = FrameStart(j + 1))

\* the second frame, of 8 bytes, was returned after its body came in 4 reads
C1_Witness ==
    /\ LastCallAtFrame(2)
    /\ daemon_lens[2] = 8
    /\ last.outcome = "packet"
    /\ last.reads = 5

\* C8: a call of read_dlt_packet that reads a header whose length field is
\* outside [4, 65535] returns no frame and has read the 4 header bytes only,
\* and main leaves its loop: nothing of the stream is read or reported as a
\* packet after it.
C8_InvalidLengthEndsReading ==
    \A j \in 1..Len(daemon_lens) :
        (LastCallAtFrame(j) /\ ~(daemon_lens[j] >= 4 /\ daemon_lens[j] <= 65535))
            => /\ last.outcome = "none"
               /\ sock_pos = last.start + 4
               /\ v_pc = "done"
               /\ ~ENABLED ViewerNext
               /\ \A i \in 1..Len(packets) :
                    packets[i].start + Len(packets[i].bytes) <= last.start

\* a header of length 2 was read and a good frame follows it in the stream
C8_Witness ==
    /\ LastCallAtFrame(1)
    /\ daemon_lens[1] = 2
    /\ Len(daemon_lens) = 2
    /\ daemon_lens[2] = 5
    /\ Avail = 5

(***************************************************************************)
(* Claims about the bridge with the stop signal (StopSpec, StopLiveSpec)   *)
(***************************************************************************)
\* a task has ended
Ended(pc) == pc \in {"done", "crashed"}

\* C11: once the stop signal has cancelled the tasks, read_from_dlt puts no
\* further item in the queue, completes no connect attempt and starts no new
\* one, broadcast_messages dequeues no further item, and both tasks end,
\* wherever they were suspended.
C11_CancellationEndsBothTasks ==
    /\ [][stop => /\ nread' = nread
                  /\ Len(message_queue') <= Len(message_queue)
                  /\ dequeued' = dequeued
                  /\ (dlt_pc' = "connect" => dlt_pc = "connect")
                  /\ (dlt_pc = "connect" => dlt_pc' \notin {"read", "sleep"})]_vars
    /\ (stop ~> (Ended(dlt_pc) /\ Ended(bc_pc)))

\* both tasks have ended after the stop signal, read_from_dlt having closed
\* its connection, broadcast_messages cancelled during a send, an item left
\* in the queue
C11_Witness ==
    /\ stop
    /\ dlt_pc = "done" /\ bc_pc = "done"
    /\ writer = "closed"
    /\ message_queue # <<>>
    /\ bc_data # NoItem

\* C12: the connection read_from_dlt opened is closed whenever a connect
\* attempt is under way and whenever the task has ended, after a close by
\* the peer, an I/O error or a cancellation alike; as writer is bound anew
\* by a connect attempt only, no two connections are open at once.
C12_ConnectionClosedOnEveryExit ==
    /\ (dlt_pc \in {"connect", "closing", "done", "crashed"}) => writer # "open"
    /\ dlt_pc = "closing" => writer = "closed"
    /\ dlt_pc = "read" => writer = "open"

\* the task ended by a cancellation during a read of its first connection,
\* which is closed
C12_Witness ==
    /\ stop
    /\ dlt_pc = "done"
    /\ faults = 0 /\ nread >= 1
    /\ writer = "closed"

(***************************************************************************)
(* Claims about the bridge when read_from_dlt is run (LiveSpec)             *)
(***************************************************************************)
\* the step is a read that returned data
ReadStep == nread' # nread

\* C13: after a refused connect attempt read_from_dlt, no connection of
\* which was lost with an error before, waits and tries again by itself
\* until an attempt is accepted, and then reads; and every read that returns
\* data appends exactly one item to the queue, the bytes from where the
\* connection's last read ended, all of them and no others, the items
\* already queued staying as they are and in their order.
C13_RetryUntilAcceptedThenNoLoss ==
    /\ ((dlt_pc = "sleep" /\ ~writer_err) ~> (dlt_pc = "read"))
    /\ [][ReadStep =>
            /\ nread' = nread + 1
            /\ Len(message_queue') = Len(message_queue) + 1
            /\ SubSeq(message_queue', 1, Len(message_queue)) = message_queue
            /\ LET it == message_queue'[Len(message_queue')]
               IN  /\ it.seq = nread'
                   /\ it.off = up_pos
                   /\ it.n >= 1
                   /\ it.data = UpBytes(up_pos, it.n)
                   /\ up_pos' = (up_pos + it.n) % Len(UpPeriod)]_vars
    /\ [][(~ReadStep /\ message_queue' # message_queue)
            => message_queue' = Tail(message_queue)]_vars
    /\ [][(~ReadStep /\ up_pos' # up_pos) => (dlt_pc = "connect" /\ up_pos' = 0)]_vars

\* the first two connect attempts were refused, the third was accepted, and
\* the first frame and then the first byte of the second were read from the
\* connection and are in the queue in this order
C13_Witness ==
    /\ dlt_pc = "read" /\ writer = "open"
    /\ refused = 2 /\ faults = 2
    /\ nread = 2
    /\ Len(message_queue) = 2
    /\ message_queue[1].off = 0 /\ message_queue[1].n = 4
    /\ message_queue[2].off = 4 /\ message_queue[2].n = 1
    /\ up_pos = 5

(***************************************************************************)
(* Further claims about the hex viewer (ViewerSpec)                        *)
(***************************************************************************)
\* C14, as claimed: a call of read_dlt_packet returns None with fewer than 4
\* header bytes read only if the daemon has closed the connection and fewer
\* than 4 bytes of the stream lay ahead of the call; header bytes that come
\* in several short reads while the stream is open are put together.
C14_HeaderEofOnlyAtStreamEnd ==
    (last.outcome = "none" /\ last.hdr < HEADER_SIZE)
        => /\ daemon_closes
           /\ Len(sock_stream) - last.start < HEADER_SIZE

\* the packet pk is no frame of the stream read from where that frame starts
NotAFrame(pk) ==
    \A j \in 1..Len(daemon_lens) :
        ~(pk.start = FrameStart(j) /\ pk.bytes = Frame(daemon_lens[j], j))

\* C15, as claimed: every packet main reports is one of the frames the
\* daemon sent, read from where that frame starts in the stream, also after
\* a recv that timed out.
C15_PacketsAreFrames == \A i \in 1..Len(packets) : ~NotAFrame(packets[i])

(***************************************************************************)
(* Further claims about the bridge (BroadcastLiveSpec, Spec)               *)
(***************************************************************************)
\* the item number s is in the queue
Queued(s) == \E i \in 1..Len(message_queue) : message_queue[i].seq = s

\* the item number s has left the queue
Dequeued(s) == \E k \in 1..Len(dequeued) : dequeued[k] = s

\* C16: a step in which a send fails changes neither the queue nor anything
\* of read_from_dlt and leaves broadcast_messages in its loop; and, nobody
\* cancelling the tasks and every send returning or failing in the end,
\* every item in the queue is dequeued, as long as the process lives (it
\* ends, its tasks cancelled, when read_from_dlt ends by an exception).
C16_SendFailureNeverStopsBroadcaster ==
    /\ [][failed' # failed =>
            /\ message_queue' = message_queue
            /\ UNCHANGED dltVars
            /\ bc_pc' \in {"get", "send"}]_vars
    /\ \A s \in 1..MaxEvents : Queued(s) ~> (Dequeued(s) \/ dlt_pc = "crashed")

\* the send of item 1 to consumer 1 failed; item 1 and then item 2, queued
\* meanwhile, were sent to consumer 2
C16_Witness ==
    /\ failed = {1}
    /\ tried[1] = <<1>>
    /\ dequeued = <<1, 2>>
    /\ sent[2] = <<1, 2>>

\* the consumer c is in the registry
Registered(c) == c \in websocket_clients

\* C17: a consumer enters the registry only by its accept, once; in the
\* registry its connection is open or its handler has not yet seen it
\* closed, and no send to it has failed; when its handler ends it is out of
\* the registry, as it is when a send to it fails, and it never comes back;
\* and once its handler has ended, the list of no pass that starts holds
\* it and no send to it begins except within the pass that was under way,
\* whose item was dequeued before.
C17_RegistryLifecycle ==
    /\ [](\A c \in Clients :
            /\ Registered(c) => (ws_state[c] \in {"open", "closed"} /\ c \notin failed)
            /\ ws_state[c] = "new" => tried[c] = <<>>
            /\ ws_state[c] = "done" => ~Registered(c))
    /\ [][\A c \in Clients :
            /\ (c \in websocket_clients' /\ ~Registered(c))
                    => (ws_state[c] = "new" /\ ws_state'[c] = "open")
            /\ (ws_state[c] = "new" /\ ws_state'[c] # "new") => c \in websocket_clients'
            /\ ws_state'[c] = "new" => ws_state[c] = "new"
            /\ c \in failed' => c \notin websocket_clients'
            /\ (ws_state[c] = "done" /\ dequeued' # dequeued)
                    => (tried'[c] = tried[c] /\ (pass' # pass => c \notin pass'.snap))
            /\ (ws_state[c] = "done" /\ tried'[c] # tried[c])
                    => (bc_pc = "send" /\ c \in pass.snap /\ c \notin pass.visited
                        /\ pass'.seq = pass.seq /\ dequeued' = dequeued)]_vars

\* the handler of consumer 1 ended after item 1 was sent to it; item 2,
\* dequeued afterwards, went to consumer 2 only
C17_Witness ==
    /\ ws_state[1] = "done"
    /\ sent[1] = <<1>> /\ tried[1] = <<1>>
    /\ sent[2] = <<1, 2>>
    /\ bc_pc = "get"

\* C18: a step takes a consumer out of the registry only if it is the
\* failure of a send to that consumer or the end of that consumer's own
\* handler; a step in which a send returns leaves the registry as it is,
\* however long the send took and whatever became of the other consumers
\* meanwhile.
C18_RemovalOnlyOnOwnFailure ==
    [][/\ sent' # sent => websocket_clients' = websocket_clients
       /\ \A c \in websocket_clients \ websocket_clients' :
            \/ (bc_pc = "send" /\ c = bc_ws /\ c \in failed' /\ c \notin failed)
            \/ (ws_state[c] = "closed" /\ ws_state'[c] = "done")
       /\ \A c \in failed' \ failed : bc_pc = "send" /\ c = bc_ws]_vars

\* the send of item 1 to consumer 1, whose connection is closed and whose
\* handler has not ended, failed; consumers 2 and 3 are registered and item
\* 1 was sent to consumer 2 afterwards
C18_Witness ==
    /\ failed = {1}
    /\ ws_state[1] = "closed"
    /\ websocket_clients = {2, 3}
    /\ sent[2] = <<1>>

\* C19, as claimed: whenever read_from_dlt is in its backoff wait, the
\* connection it had is closed.
C19_ClosedBeforeBackoff == dlt_pc = "sleep" => writer # "open"

====
